---- MODULE Spec2Model ----
(***************************************************************************)
(* HorizonClient (client.ts): the batching, flushing and retry engine of   *)
(* the Horizon Node.js SDK, under Node's event loop.  Macrotasks (timer    *)
(* callbacks, fetch completions) run one at a time; the continuation of    *)
(* an `await` on a settled promise is a microtask and runs before the next *)
(* macrotask.  Time is kept as the remaining delay of every armed timer.   *)
(***************************************************************************)
EXTENDS Integers, Sequences, FiniteSets, TLC

\* ------------------------------------------------------------------ bounds
MaxRecords == 2          \* captureLog calls in one behaviour
MaxFaults  == 2          \* uncaughtException events in one behaviour
MaxFailures == 4         \* retryable fetch failures in one behaviour

\* ------------------------------------------------- inputs of the behaviour
\* An option is <<>> when the caller leaves it out and <<v>> when it is given.
\* The constructions explored: no API key, every default, two clients with
\* a small batch size and retry count, and one that asks for no retries.
Constructions ==
    {[apiKey |-> "",    batchSize |-> <<>>,  flushInterval |-> <<>>,     maxRetries |-> <<>>],
     [apiKey |-> "key", batchSize |-> <<>>,  flushInterval |-> <<>>,     maxRetries |-> <<>>],
     [apiKey |-> "key", batchSize |-> <<1>>, flushInterval |-> <<1000>>, maxRetries |-> <<1>>],
     [apiKey |-> "key", batchSize |-> <<2>>, flushInterval |-> <<>>,     maxRetries |-> <<1>>],
     [apiKey |-> "key", batchSize |-> <<1>>, flushInterval |-> <<>>,     maxRetries |-> <<0>>]}

\* HTTP statuses the endpoint may answer with; NetworkError stands for fetch
\* throwing (no response, so no status).
Statuses     == {200, 302, 400, 499, 500}
NetworkError == 0
Results      == Statuses \cup {NetworkError}

ProducerLevels == {"info"}
TickSteps      == {1000}

\* --------------------------------------------------------------- constants
DefaultBatchSize     == 50
DefaultFlushInterval == 2000
DefaultMaxRetries    == 3
BackoffUnitMs        == 1000

VARIABLES
    options,       \* the HorizonClientOptions the constructor was given
    constructed,   \* FALSE when the constructor threw
    config,        \* apiKey, batchSize, flushInterval, maxRetries
    buffer,        \* this.buffer: record ids in push order
    timer,         \* this.timer: a timer id, 0 for null
    timers,        \* the runtime's armed, unfired flush timers
    ntimer,        \* timer ids handed out by setTimeout
    batches,       \* every payload a flush created, in creation order
    calls,         \* every captureLog call so far; call r pushed record r
    handlers,      \* every uncaughtException handler run so far
    bufAge,        \* ms since the buffer last went from empty to non-empty
    stderr,        \* console.error lines written outside flush
    exited,        \* process.exit was called
    pino           \* the Pino transport's closure: its own buffer, timer, sends

vars == <<pino, options, constructed, config, buffer, timer, timers, ntimer, batches, calls,
          handlers, bufAge, stderr, exited>>

\* ----------------------------------------------------------------- helpers
Min(S) == CHOOSE x \in S : \A y \in S : x <= y

RECURSIVE Pow2(_)
Pow2(n) == IF n = 0 THEN 1 ELSE 2 * Pow2(n - 1)

\* `opt || dflt` for a numeric option: undefined and 0 are both falsy.
OrDefault(opt, dflt) == IF opt = <<>> \/ opt[1] = 0 THEN dflt ELSE opt[1]

\* The fields the constructor assigns.
Configure(opts) ==
    [apiKey        |-> opts.apiKey,
     batchSize     |-> OrDefault(opts.batchSize, DefaultBatchSize),
     flushInterval |-> OrDefault(opts.flushInterval, DefaultFlushInterval),
     maxRetries    |-> OrDefault(opts.maxRetries, DefaultMaxRetries)]

\* `if (!this.apiKey) throw`
ConstructorThrows(cfg) == cfg.apiKey = ""

\* The client's mutable fields and the runtime objects they refer to.
Client == [buffer |-> buffer, timer |-> timer, timers |-> timers,
           ntimer |-> ntimer, batches |-> batches, bufAge |-> bufAge,
           started |-> 0]

Install(st) ==
    /\ buffer'  = st.buffer
    /\ timer'   = st.timer
    /\ timers'  = st.timers
    /\ ntimer'  = st.ntimer
    /\ batches' = st.batches
    /\ bufAge'  = st.bufAge

\* clearTimeout(id): the runtime drops the timer if it is still armed.
ClearTimeout(tms, id) == {t \in tms : t.id # id}

\* A payload handed to send(0): the first fetch is issued at once.
NewBatch(payload, awaiter, trigger, age) ==
    [payload  |-> payload,
     trigger  |-> trigger,
     age      |-> age,
     awaiter  |-> awaiter,
     attempt  |-> 0,
     phase    |-> "fetch",
     remaining|-> 0,
     log      |-> <<>>,
     waits    |-> <<>>,
     outcome  |-> "none",
     diag     |-> 0]

\* Variants of flush() with one slip each.
\* It forgets the early return on an empty buffer.
Flush_NoEmptyCheck(st, awaiter, trigger) ==
    [st EXCEPT
        !.timers  = IF st.timer # 0 THEN ClearTimeout(@, st.timer) ELSE @,
        !.timer   = 0,
        !.batches = Append(@, NewBatch(st.buffer, awaiter, trigger, st.bufAge)),
        !.buffer  = <<>>,
        !.bufAge  = 0,
        !.started = Len(st.batches) + 1]

\* It nulls this.timer without clearTimeout.
Flush_NoClearTimeout(st, awaiter, trigger) ==
    IF Len(st.buffer) = 0
    THEN [st EXCEPT !.started = 0]
    ELSE [st EXCEPT
            !.timer   = 0,
            !.batches = Append(@, NewBatch(st.buffer, awaiter, trigger, st.bufAge)),
            !.buffer  = <<>>,
            !.bufAge  = 0,
            !.started = Len(st.batches) + 1]

\* It copies the buffer into the payload but never resets it.
Flush_KeepBuffer(st, awaiter, trigger) ==
    IF Len(st.buffer) = 0
    THEN [st EXCEPT !.started = 0]
    ELSE [st EXCEPT
            !.timers  = IF st.timer # 0 THEN ClearTimeout(@, st.timer) ELSE @,
            !.timer   = 0,
            !.batches = Append(@, NewBatch(st.buffer, awaiter, trigger, st.bufAge)),
            !.started = Len(st.batches) + 1]

\* It clears the runtime timer but leaves the handle in this.timer.
Flush_KeepHandle(st, awaiter, trigger) ==
    IF Len(st.buffer) = 0
    THEN [st EXCEPT !.started = 0]
    ELSE [st EXCEPT
            !.timers  = IF st.timer # 0 THEN ClearTimeout(@, st.timer) ELSE @,
            !.batches = Append(@, NewBatch(st.buffer, awaiter, trigger, st.bufAge)),
            !.buffer  = <<>>,
            !.bufAge  = 0,
            !.started = Len(st.batches) + 1]

\* flush(), up to its first await.  st.started is the id of the batch it
\* created, 0 when it returned on the empty buffer.
Flush(st, awaiter, trigger) ==
    IF Len(st.buffer) = 0
    THEN [st EXCEPT !.started = 0]
    ELSE [st EXCEPT
            !.timers  = IF st.timer # 0 THEN ClearTimeout(@, st.timer) ELSE @,
            !.timer   = 0,
            !.batches = Append(@, NewBatch(st.buffer, awaiter, trigger, st.bufAge)),
            !.buffer  = <<>>,
            !.bufAge  = 0,
            !.started = Len(st.batches) + 1]

\* Variant: the timer is armed on every call below the threshold.
CaptureBranch_AlwaysArm(len, batchSize, tm) ==
    IF len >= batchSize THEN "flush" ELSE "arm"

\* Variant: no timer is ever armed below the threshold.
CaptureBranch_NoTimer(len, batchSize, tm) ==
    IF len >= batchSize THEN "flush" ELSE "none"

\* Variant: the threshold test is `>` instead of `>=`.
CaptureBranch_Strict(len, batchSize, tm) ==
    IF len > batchSize THEN "flush"
    ELSE IF tm = 0 THEN "arm"
    ELSE "none"

\* The branch captureLog takes after the push.
CaptureBranch(len, batchSize, tm) ==
    IF len >= batchSize THEN "flush"
    ELSE IF tm = 0 THEN "arm"
    ELSE "none"

\* Variant: the record is put at the head of the buffer (unshift).
CaptureLog_Unshift(st, r, batchSize, flushInterval) ==
    LET pushed == [st EXCEPT !.buffer = <<r>> \o @,
                             !.bufAge = IF Len(st.buffer) = 0 THEN 0 ELSE @,
                             !.started = 0]
        branch == CaptureBranch(Len(pushed.buffer), batchSize, pushed.timer)
    IN  CASE branch = "flush" -> Flush(pushed, <<"call", r>>, "threshold")
          [] branch = "arm"   ->
                [pushed EXCEPT
                    !.ntimer = @ + 1,
                    !.timer  = pushed.ntimer + 1,
                    !.timers = @ \cup {[id |-> pushed.ntimer + 1,
                                        remaining |-> flushInterval]}]
          [] OTHER            -> pushed

\* captureLog(), up to its first await; r is the id of the call.
CaptureLog(st, r, batchSize, flushInterval) ==
    LET pushed == [st EXCEPT !.buffer = Append(@, r),
                             !.bufAge = IF Len(st.buffer) = 0 THEN 0 ELSE @,
                             !.started = 0]
        branch == CaptureBranch(Len(pushed.buffer), batchSize, pushed.timer)
    IN  CASE branch = "flush" -> Flush(pushed, <<"call", r>>, "threshold")
          [] branch = "arm"   ->
                [pushed EXCEPT
                    !.ntimer = @ + 1,
                    !.timer  = pushed.ntimer + 1,
                    !.timers = @ \cup {[id |-> pushed.ntimer + 1,
                                        remaining |-> flushInterval]}]
          [] OTHER            -> pushed

\* Variant: captureLog starts the flush without awaiting it.
NewCall_NoAwait(level, origin, h, started) ==
    [level   |-> level,
     origin  |-> origin,
     handler |-> h,
     batch   |-> started,
     status  |-> "resolved"]

\* The call record of captureLog call r: pending while it awaits its flush.
NewCall(level, origin, h, started) ==
    [level   |-> level,
     origin  |-> origin,
     handler |-> h,
     batch   |-> started,
     status  |-> IF started # 0 THEN "pending" ELSE "resolved"]

\* res.ok
Ok(status) == status >= 200 /\ status <= 299

\* Math.pow(2, attempt) * 1000
BackoffDelay(attempt) == Pow2(attempt) * BackoffUnitMs

\* How a fetch result reads in the retry policy's terms: a 5xx response and
\* a network-level exception are the retryable failures.
ResultKind(res) ==
    IF res = NetworkError \/ res >= 500 THEN "retryable"
    ELSE IF res >= 200 /\ res < 300 THEN "2xx"
    ELSE IF res >= 400 /\ res < 500 THEN "4xx"
    ELSE "other"

\* Variants of send with one slip each.
\* The retry guard is `attempt <= maxRetries`.
SendDecision_OneMoreRetry(attempt, res, maxRetries) ==
    IF res = NetworkError
    THEN IF attempt <= maxRetries THEN "retry" ELSE "false"
    ELSE IF Ok(res) \/ (res >= 400 /\ res < 500) THEN "true"
    ELSE IF res >= 500 /\ attempt <= maxRetries THEN "retry"
    ELSE "false"

\* Only res.ok is terminal; a 4xx falls through to `return false`.
SendDecision_OkOnly(attempt, res, maxRetries) ==
    IF res = NetworkError
    THEN IF attempt < maxRetries THEN "retry" ELSE "false"
    ELSE IF Ok(res) THEN "true"
    ELSE IF res >= 500 /\ attempt < maxRetries THEN "retry"
    ELSE "false"

\* No try/catch around the fetch: its exception leaves send.
SendDecision_NoCatch(attempt, res, maxRetries) ==
    IF res = NetworkError THEN "throw"
    ELSE IF Ok(res) \/ (res >= 400 /\ res < 500) THEN "true"
    ELSE IF res >= 500 /\ attempt < maxRetries THEN "retry"
    ELSE "false"

\* Every response that is neither ok nor 4xx is retried.
SendDecision_RetryNotOk(attempt, res, maxRetries) ==
    IF res = NetworkError
    THEN IF attempt < maxRetries THEN "retry" ELSE "false"
    ELSE IF Ok(res) \/ (res >= 400 /\ res < 500) THEN "true"
    ELSE IF attempt < maxRetries THEN "retry"
    ELSE "false"

\* What one run of send(attempt) does with the result of its fetch:
\* "true" / "false" are its return values, "retry" is the backoff sleep
\* followed by send(attempt + 1), "throw" is an exception leaving send.
SendDecision(attempt, res, maxRetries) ==
    IF res = NetworkError
    THEN IF attempt < maxRetries THEN "retry" ELSE "false"
    ELSE IF Ok(res) \/ (res >= 400 /\ res < 500) THEN "true"
    ELSE IF res >= 500 /\ attempt < maxRetries THEN "retry"
    ELSE "false"

\* A microtask is queued: some handler's awaited promise has settled.
HandlerReady(h) ==
    CASE handlers[h].pc = "awaitCapture" ->
            calls[handlers[h].call].status # "pending"
      [] handlers[h].pc = "awaitFlush" ->
            IF handlers[h].batch = 0 THEN TRUE
            ELSE batches[handlers[h].batch].phase = "done"
      [] OTHER -> FALSE

MicrotaskPending == \E h \in DOMAIN handlers : HandlerReady(h)

Running == constructed /\ ~exited

\* --------------------------------------------- the Pino transport (closure)
\* The options the transport factory is given: <<>> is an absent option.
PinoConstructions ==
    { [apiKey |-> "key", batchSize |-> <<>>,  flushInterval |-> <<>>],
      [apiKey |-> "key", batchSize |-> <<1>>, flushInterval |-> <<1000>>],
      [apiKey |-> "key", batchSize |-> <<2>>, flushInterval |-> <<>>] }

PinoDefaultBatchSize == 50
PinoDefaultFlushInterval == 2000

\* A destructuring default: only an absent option takes it.
PinoDefault(opt, dflt) == IF opt = <<>> THEN dflt ELSE opt[1]

\* The closure right after the factory ran: let buffer = [], let timer = null.
PinoStart(opts) ==
    [batchSize     |-> PinoDefault(opts.batchSize, PinoDefaultBatchSize),
     flushInterval |-> PinoDefault(opts.flushInterval, PinoDefaultFlushInterval),
     buffer   |-> <<>>,
     timer    |-> 0,
     timers   |-> {},
     ntimer   |-> 0,
     batches  |-> <<>>,
     consumed |-> 0,
     loop     |-> 0,
     closed   |-> FALSE,
     started  |-> 0]

\* A payload handed to the transport's single fetch.
PinoBatch(payload) ==
    [payload |-> payload, phase |-> "fetch", log |-> <<>>, warn |-> 0, error |-> 0]

\* Variant: the transport's flush leaves the armed timer alone.
PinoFlush_KeepTimer(p) ==
    IF Len(p.buffer) = 0
    THEN [p EXCEPT !.started = 0]
    ELSE [p EXCEPT
            !.batches = Append(@, PinoBatch(p.buffer)),
            !.buffer  = <<>>,
            !.started = Len(p.batches) + 1]

\* The transport's flush, up to its await fetch.  p.started is the id of the
\* batch it created, 0 when it returned on the empty buffer.
PinoFlush(p) ==
    IF Len(p.buffer) = 0
    THEN [p EXCEPT !.started = 0]
    ELSE [p EXCEPT
            !.batches = Append(@, PinoBatch(p.buffer)),
            !.buffer  = <<>>,
            !.timers  = IF p.timer # 0 THEN ClearTimeout(@, p.timer) ELSE @,
            !.timer   = 0,
            !.started = Len(p.batches) + 1]

\* One turn of the for-await loop on record r: push, then flush or arm.
PinoConsume(p, r) ==
    LET pushed == [p EXCEPT !.buffer = Append(@, r),
                            !.consumed = r,
                            !.started = 0]
    IN  IF Len(pushed.buffer) >= pushed.batchSize
        THEN LET f == PinoFlush(pushed) IN [f EXCEPT !.loop = f.started]
        ELSE IF pushed.timer = 0
        THEN [pushed EXCEPT
                !.ntimer = @ + 1,
                !.timer  = pushed.ntimer + 1,
                !.timers = @ \cup {[id |-> pushed.ntimer + 1,
                                    remaining |-> pushed.flushInterval]}]
        ELSE pushed

\* What the transport's flush does with the outcome of its fetch.
PinoSettle(bt, res) ==
    [bt EXCEPT
        !.phase = "done",
        !.log   = Append(@, res),
        !.warn  = IF res # NetworkError /\ ~Ok(res) THEN @ + 1 ELSE @,
        !.error = IF res = NetworkError THEN @ + 1 ELSE @]

\* -------------------------------------------------------------------- Init
Init ==
    /\ \E opts \in Constructions :
          /\ options = opts
          /\ config = Configure(opts)
          /\ constructed = ~ConstructorThrows(Configure(opts))
    /\ buffer = <<>>
    /\ timer = 0
    /\ timers = {}
    /\ ntimer = 0
    /\ batches = <<>>
    /\ calls = <<>>
    /\ handlers = <<>>
    /\ bufAge = 0
    /\ stderr = 0
    /\ exited = FALSE
    /\ pino = PinoStart(CHOOSE o \in PinoConstructions : o.batchSize = <<>>)

\* ----------------------------------------------------------------- actions
\* A producer (middleware, host code) calls captureLog and drops the promise.
ProducerLog ==
    /\ Running
    /\ Len(calls) < MaxRecords
    /\ \E level \in ProducerLevels :
         LET r  == Len(calls) + 1
             st == CaptureLog(Client, r, config.batchSize, config.flushInterval)
         IN  /\ Install(st)
             /\ calls' = Append(calls, NewCall(level, "producer", 0, st.started))
    /\ UNCHANGED <<pino, options, constructed, config, handlers, stderr, exited>>

\* Variant: the rejection handler goes on like the exception handler.
UnhandledRejection_ForcesExit ==
    /\ Running
    /\ Len(calls) < MaxRecords
    /\ Len(handlers) < MaxFaults
    /\ LET r  == Len(calls) + 1
           h  == Len(handlers) + 1
           st == CaptureLog(Client, r, config.batchSize, config.flushInterval)
       IN  /\ Install(st)
           /\ calls' = Append(calls, NewCall("fatal", "unhandledRejection", h, st.started))
           /\ handlers' = Append(handlers, [pc |-> "awaitCapture", call |-> r, batch |-> 0])
    /\ UNCHANGED <<pino, options, constructed, config, stderr, exited>>

\* 'unhandledRejection': await captureLog('fatal', ...) and nothing after it.
UnhandledRejection ==
    /\ Running
    /\ Len(calls) < MaxRecords
    /\ LET r  == Len(calls) + 1
           st == CaptureLog(Client, r, config.batchSize, config.flushInterval)
       IN  /\ Install(st)
           /\ calls' = Append(calls, NewCall("fatal", "unhandledRejection", 0, st.started))
    /\ UNCHANGED <<pino, options, constructed, config, handlers, stderr, exited>>

\* 'uncaughtException', up to `await this.captureLog(...)`.
UncaughtException ==
    /\ Running
    /\ Len(calls) < MaxRecords
    /\ Len(handlers) < MaxFaults
    /\ LET r  == Len(calls) + 1
           h  == Len(handlers) + 1
           st == CaptureLog(Client, r, config.batchSize, config.flushInterval)
       IN  /\ Install(st)
           /\ calls' = Append(calls, NewCall("fatal", "uncaughtException", h, st.started))
           /\ handlers' = Append(handlers, [pc |-> "awaitCapture", call |-> r, batch |-> 0])
    /\ stderr' = stderr + 1
    /\ UNCHANGED <<pino, options, constructed, config, exited>>

\* The handler resumes after captureLog: `await this.flush()`.
HandlerFlush(h) ==
    /\ Running
    /\ handlers[h].pc = "awaitCapture"
    /\ HandlerReady(h)
    /\ LET st == Flush(Client, <<"handler", h>>, "force")
       IN  /\ Install(st)
           /\ handlers' = [handlers EXCEPT ![h].pc = "awaitFlush",
                                           ![h].batch = st.started]
    /\ UNCHANGED <<pino, options, constructed, config, calls, stderr, exited>>

\* The handler resumes after flush: process.exit(1).
HandlerExit(h) ==
    /\ Running
    /\ handlers[h].pc = "awaitFlush"
    /\ HandlerReady(h)
    /\ handlers' = [handlers EXCEPT ![h].pc = "exit"]
    /\ exited' = TRUE
    /\ UNCHANGED <<pino, options, constructed, config, buffer, timer, timers, ntimer, batches,
                   calls, bufAge, stderr>>

\* The flush timer's callback: () => this.flush().
TimerFire ==
    /\ Running
    /\ ~MicrotaskPending
    /\ \E t \in timers :
         /\ t.remaining = 0
         /\ Install(Flush([Client EXCEPT !.timers = @ \ {t}], <<"none">>, "timer"))
    /\ UNCHANGED <<pino, options, constructed, config, calls, handlers, stderr, exited>>

\* The promise of the captureLog call that awaits batch b settles with it.
SettleCalls(cs, b, how) ==
    [r \in DOMAIN cs |->
        IF cs[r].batch = b /\ cs[r].status = "pending"
        THEN [cs[r] EXCEPT !.status = how] ELSE cs[r]]

\* Retryable failures the transport has produced so far.
RECURSIVE CountRetryable(_)
CountRetryable(lg) ==
    IF lg = <<>> THEN 0
    ELSE (IF Head(lg).kind = "retryable" THEN 1 ELSE 0) + CountRetryable(Tail(lg))

RECURSIVE Failures(_)
Failures(bs) ==
    IF bs = <<>> THEN 0 ELSE CountRetryable(Head(bs).log) + Failures(Tail(bs))

\* Variant: the test on `success` is inverted.
ErrorLines_Inverted(success) == IF success THEN 1 ELSE 0

\* `if (!success) console.error(...)`: the lines flush writes at its end.
ErrorLines(success) == IF ~success THEN 1 ELSE 0

\* The fetch of batch b settles with res; send and flush run on from there.
Response(b, res) ==
    /\ Running
    /\ ~MicrotaskPending
    /\ batches[b].phase = "fetch"
    /\ ResultKind(res) = "retryable" => Failures(batches) < MaxFailures
    /\ LET a   == batches[b].attempt
           d   == SendDecision(a, res, config.maxRetries)
           lg  == Append(batches[b].log, [attempt |-> a, kind |-> ResultKind(res)])
       IN  CASE d = "retry" ->
                  /\ batches' = [batches EXCEPT
                                   ![b].log = lg,
                                   ![b].phase = "backoff",
                                   ![b].remaining = BackoffDelay(a),
                                   ![b].waits = Append(@, 0)]
                  /\ calls' = calls
             [] d = "true" ->
                  /\ batches' = [batches EXCEPT
                                   ![b].log = lg,
                                   ![b].phase = "done",
                                   ![b].outcome = "Delivered",
                                   ![b].diag = @ + ErrorLines(TRUE)]
                  /\ calls' = SettleCalls(calls, b, "resolved")
             [] d = "false" ->
                  /\ batches' = [batches EXCEPT
                                   ![b].log = lg,
                                   ![b].phase = "done",
                                   ![b].outcome = "Abandoned",
                                   ![b].diag = @ + ErrorLines(FALSE)]
                  /\ calls' = SettleCalls(calls, b, "resolved")
             [] OTHER ->
                  /\ batches' = [batches EXCEPT
                                   ![b].log = lg,
                                   ![b].phase = "done",
                                   ![b].outcome = "Raised"]
                  /\ calls' = SettleCalls(calls, b, "rejected")
    /\ UNCHANGED <<pino, options, constructed, config, buffer, timer, timers, ntimer,
                   handlers, bufAge, stderr, exited>>

\* The backoff sleep of batch b ends: send(attempt + 1) issues its fetch.
BackoffExpire(b) ==
    /\ Running
    /\ ~MicrotaskPending
    /\ batches[b].phase = "backoff"
    /\ batches[b].remaining = 0
    /\ batches' = [batches EXCEPT ![b].phase = "fetch",
                                  ![b].attempt = @ + 1]
    /\ UNCHANGED <<pino, options, constructed, config, buffer, timer, timers, ntimer, calls,
                   handlers, bufAge, stderr, exited>>

\* Delays still to run: the flush timers and the backoff sleeps.
Pending ==
    {t.remaining : t \in timers} \cup
    {batches[b].remaining : b \in {x \in DOMAIN batches : batches[x].phase = "backoff"}}

\* Time passes, never beyond the next timer that is due.
Tick ==
    /\ Running
    /\ ~MicrotaskPending
    /\ Pending # {}
    /\ Min(Pending) > 0
    /\ \E d \in {s \in TickSteps : s <= Min(Pending)} \cup {Min(Pending)} :
         /\ timers' = {[t EXCEPT !.remaining = @ - d] : t \in timers}
         /\ batches' = [b \in DOMAIN batches |->
                          IF batches[b].phase = "backoff"
                          THEN [batches[b] EXCEPT
                                  !.remaining = @ - d,
                                  !.waits[Len(batches[b].waits)] = @ + d]
                          ELSE batches[b]]
         /\ bufAge' = IF Len(buffer) > 0 THEN bufAge + d ELSE bufAge
    /\ UNCHANGED <<pino, options, constructed, config, buffer, timer, ntimer, calls, handlers,
                   stderr, exited>>

Next ==
    \/ ProducerLog
    \/ UnhandledRejection
    \/ UncaughtException
    \/ \E h \in DOMAIN handlers : HandlerFlush(h)
    \/ \E h \in DOMAIN handlers : HandlerExit(h)
    \/ TimerFire
    \/ \E b \in DOMAIN batches : \E res \in Results : Response(b, res)
    \/ \E b \in DOMAIN batches : BackoffExpire(b)
    \/ Tick

Spec == Init /\ [][Next]_vars

\* The event loop keeps running: an armed timer that is due fires, time
\* passes, a pending fetch settles, and a queued continuation is run.
Fairness ==
    /\ WF_vars(TimerFire)
    /\ WF_vars(Tick)
    /\ WF_vars(\E b \in DOMAIN batches : \E res \in Results : Response(b, res))
    /\ WF_vars(\E b \in DOMAIN batches : BackoffExpire(b))
    /\ WF_vars(\E h \in DOMAIN handlers : HandlerFlush(h))
    /\ WF_vars(\E h \in DOMAIN handlers : HandlerExit(h))

FairSpec == Init /\ [][Next]_vars /\ Fairness

\* ------------------------------------------------ the Pino transport, alone
\* The transport runs in pino's worker thread; no HorizonClient is involved.
PinoInit ==
    /\ pino \in {PinoStart(o) : o \in PinoConstructions}
    /\ options = CHOOSE o \in Constructions : o.apiKey = ""
    /\ config = Configure(options)
    /\ constructed = FALSE
    /\ buffer = <<>>
    /\ timer = 0
    /\ timers = {}
    /\ ntimer = 0
    /\ batches = <<>>
    /\ calls = <<>>
    /\ handlers = <<>>
    /\ bufAge = 0
    /\ stderr = 0
    /\ exited = FALSE

PinoCore == <<options, constructed, config, buffer, timer, timers, ntimer, batches,
              calls, handlers, bufAge, stderr, exited>>

\* The source stream yields the next record; the loop is not parked on a flush.
PinoRecord ==
    /\ ~pino.closed
    /\ pino.loop = 0
    /\ pino.consumed < MaxRecords
    /\ pino' = PinoConsume(pino, pino.consumed + 1)
    /\ UNCHANGED PinoCore

\* The armed timer is due: the runtime calls flush, nobody awaits it.
PinoTimerFire ==
    /\ \E t \in pino.timers :
         /\ t.remaining = 0
         /\ pino' = PinoFlush([pino EXCEPT !.timers = @ \ {t}])
    /\ UNCHANGED PinoCore

\* The fetch of batch b settles with status res, or rejects.
PinoResponse(b, res) ==
    /\ pino.batches[b].phase = "fetch"
    /\ pino' = [pino EXCEPT !.batches[b] = PinoSettle(@, res),
                            !.loop = IF @ = b THEN 0 ELSE @]
    /\ UNCHANGED PinoCore

\* The stream ended: close() flushes what is left.
PinoClose ==
    /\ ~pino.closed
    /\ pino.loop = 0
    /\ pino' = PinoFlush([pino EXCEPT !.closed = TRUE])
    /\ UNCHANGED PinoCore

PinoTick ==
    /\ pino.timers # {}
    /\ \A t \in pino.timers : t.remaining > 0
    /\ \E d \in {s \in TickSteps : s <= Min({t.remaining : t \in pino.timers})}
                \cup {Min({t.remaining : t \in pino.timers})} :
         pino' = [pino EXCEPT !.timers = {[t EXCEPT !.remaining = @ - d] : t \in @}]
    /\ UNCHANGED PinoCore

PinoNext ==
    \/ PinoRecord
    \/ PinoTimerFire
    \/ \E b \in DOMAIN pino.batches : \E res \in Results : PinoResponse(b, res)
    \/ PinoClose
    \/ PinoTick

SpecPino == PinoInit /\ [][PinoNext]_vars

\* ------------------------------------------------- vocabulary of the claims
InFlight == {b \in DOMAIN batches : batches[b].phase # "done"}

Range(f) == {f[i] : i \in DOMAIN f}

AllRetryable(lg) == \A i \in DOMAIN lg : lg[i].kind = "retryable"

\* Records drained into the first k batches.
RECURSIVE Drained(_)
Drained(k) == IF k = 0 THEN 0 ELSE Drained(k - 1) + Len(batches[k].payload)

\* The record ids from..to in call order.
Ids(from, to) == [i \in 1..(to - from + 1) |-> from + i - 1]

\* -------------------------------------------------------------------- C1
\* C1: a batch whose every attempt so far failed retryably (5xx or network
\* exception) has its attempts numbered 0, 1, ..., never more than
\* maxRetries + 1 of them; the sleep after failed attempt a is over only
\* after exactly 2^a seconds; the batch is finished exactly when attempt
\* maxRetries has failed, with no sleep after it and the outcome Abandoned.
C1_RetryThenAbandon ==
    \A b \in DOMAIN batches :
        LET B == batches[b] IN
        AllRetryable(B.log) =>
            /\ \A i \in DOMAIN B.log : B.log[i].attempt = i - 1
            /\ Len(B.log) <= config.maxRetries + 1
            /\ (B.phase = "done") = (Len(B.log) = config.maxRetries + 1)
            /\ B.phase = "done" =>
                  /\ B.outcome = "Abandoned"
                  /\ Len(B.waits) = config.maxRetries
            /\ B.phase = "backoff" =>
                  /\ Len(B.waits) = Len(B.log)
                  /\ B.waits[Len(B.waits)] + B.remaining
                        = (2 ^ (Len(B.waits) - 1)) * 1000
            /\ B.phase = "fetch" =>
                  /\ Len(B.waits) = Len(B.log)
                  /\ B.attempt = Len(B.log)
            /\ \A i \in DOMAIN B.waits :
                  (i < Len(B.waits) \/ B.phase # "backoff")
                      => B.waits[i] = (2 ^ (i - 1)) * 1000

\* A batch given up after attempts 0..3 of the default configuration.
C1_Witness ==
    \E b \in DOMAIN batches :
        /\ batches[b].phase = "done"
        /\ AllRetryable(batches[b].log)
        /\ Len(batches[b].log) = 4
        /\ batches[b].waits = <<1000, 2000, 4000>>

\* -------------------------------------------------------------------- C2
\* C2: a 2xx or 4xx response is the last entry of its batch's attempt log:
\* the batch is finished with the outcome Delivered, no attempt follows it
\* and no backoff sleep was started after it, whatever the attempt number.
C2_TerminalResponse ==
    \A b \in DOMAIN batches :
        LET B == batches[b] IN
        \A i \in DOMAIN B.log :
            B.log[i].kind \in {"2xx", "4xx"} =>
                /\ i = Len(B.log)
                /\ B.phase = "done"
                /\ B.outcome = "Delivered"
                /\ B.attempt = i - 1
                /\ Len(B.waits) = i - 1
                /\ B.remaining = 0
                /\ B.diag = 0

\* A 4xx on the first attempt, and in another batch a 4xx after a retry.
C2_Witness ==
    /\ \E b \in DOMAIN batches :
          /\ Len(batches[b].log) = 1
          /\ batches[b].log[1].kind = "4xx"
    /\ \E b \in DOMAIN batches :
          /\ Len(batches[b].log) = 2
          /\ batches[b].log[2].kind = "4xx"

\* -------------------------------------------------------------------- C3
\* C3: while only record calls have happened and their count is below the
\* batch size, every batch was created by the timer, exactly flushInterval
\* after the first record of its window, and holds all records of that
\* window in call order; the records of the current window are all in the
\* buffer, guarded by exactly one armed timer that was armed with the first
\* of them, and no timer is armed when the buffer is empty.
C3_OneTimerFlushPerWindow ==
    (constructed /\ Len(handlers) = 0 /\ Len(calls) < config.batchSize) =>
        /\ \A b \in DOMAIN batches :
              /\ batches[b].trigger = "timer"
              /\ batches[b].age = config.flushInterval
              /\ batches[b].payload # <<>>
              /\ batches[b].payload = Ids(Drained(b - 1) + 1, Drained(b))
        /\ buffer = Ids(Drained(Len(batches)) + 1, Len(calls))
        /\ buffer # <<>> =>
              /\ Cardinality(timers) = 1
              /\ \A t \in timers :
                    /\ t.id = timer
                    /\ t.remaining = config.flushInterval - bufAge
        /\ buffer = <<>> => timers = {} /\ timer = 0

\* Two records of one window leave in one timer batch.
C3_Witness ==
    /\ Len(handlers) = 0
    /\ Len(calls) = 2
    /\ Len(calls) < config.batchSize
    /\ Len(batches) = 1
    /\ batches[1].trigger = "timer"
    /\ batches[1].payload = <<1, 2>>
    /\ batches[1].age = config.flushInterval
    /\ buffer = <<>>

\* -------------------------------------------------------------------- C4
\* C4: a record call that brings the buffer to the batch size creates, in
\* that same step, one batch holding exactly the buffered records followed
\* by the new one, with its first fetch issued; after the step the buffer
\* is empty, this.timer is null and no flush timer is armed any more.
C4_ThresholdFlush ==
    [][ (Len(calls') = Len(calls) + 1 /\ Len(buffer) + 1 >= config.batchSize)
          => /\ Len(batches') = Len(batches) + 1
             /\ batches'[Len(batches')].payload = Append(buffer, Len(calls'))
             /\ batches'[Len(batches')].phase = "fetch"
             /\ batches'[Len(batches')].attempt = 0
             /\ \A b \in DOMAIN batches : batches'[b] = batches[b]
             /\ buffer' = <<>>
             /\ timer' = 0
             /\ timers' = {} ]_vars

\* batchSize = 2 and two record calls: one batch, both records, no timer.
C4_Witness ==
    /\ config.batchSize = 2
    /\ Len(calls) = 2
    /\ Len(batches) = 1
    /\ batches[1].trigger = "threshold"
    /\ batches[1].payload = <<1, 2>>
    /\ buffer = <<>>
    /\ timer = 0
    /\ timers = {}

\* -------------------------------------------------------------------- C5
\* C5: a flush that finds the buffer empty changes nothing: no batch (so no
\* fetch and no diagnostic), the buffer, this.timer and the armed timers as
\* before.  The flush calls that are not part of a record call are the
\* handler's forced flush and the timer callback.
C5_EmptyFlushNoOp ==
    [][ /\ (buffer = <<>> /\ Len(calls') = Len(calls))
            => /\ Len(batches') = Len(batches)
               /\ buffer' = buffer
               /\ timer' = timer
               /\ {t.id : t \in timers'} = {t.id : t \in timers}
        /\ (buffer = <<>> /\ handlers' # handlers /\ Len(handlers') = Len(handlers))
            => /\ batches' = batches
               /\ buffer' = buffer
               /\ timer' = timer
               /\ timers' = timers
               /\ stderr' = stderr
               /\ \A h \in DOMAIN handlers :
                     handlers'[h].batch = handlers[h].batch ]_vars

\* The handler's record call flushed at the threshold; its forced flush,
\* with no record call in between, found the buffer empty.
C5_Witness ==
    \E h \in DOMAIN handlers :
        /\ handlers[h].pc = "awaitFlush"
        /\ handlers[h].batch = 0
        /\ calls[handlers[h].call].batch # 0
        /\ batches[calls[handlers[h].call].batch].payload # <<>>
        /\ Len(calls) = handlers[h].call

\* -------------------------------------------------------------------- C6
\* C6: no captureLog promise is ever rejected and no flush ends with an
\* exception, whatever the transport answered; the constructor throws
\* exactly when the API key is empty.
C6_NoFailureReachesProducer ==
    /\ \A r \in DOMAIN calls : calls[r].status \in {"pending", "resolved"}
    /\ \A b \in DOMAIN batches :
          batches[b].outcome \in {"none", "Delivered", "Abandoned"}
    /\ constructed = (config.apiKey # "")

\* An awaited record call returned normally although its batch was given up.
C6_Witness ==
    \E r \in DOMAIN calls :
        /\ calls[r].batch # 0
        /\ calls[r].status = "resolved"
        /\ batches[calls[r].batch].outcome = "Abandoned"
        /\ Len(batches[calls[r].batch].log) = config.maxRetries + 1

\* -------------------------------------------------------------------- C7
\* C7 as stated: at most one batch is in flight at any time.
C7_AtMostOneInFlight == Cardinality(InFlight) <= 1

\* C7 amended: batches are created one per flush from a non-empty buffer
\* that the flush empties, so the batches in flight are non-empty and
\* pairwise disjoint and none holds a record still in the buffer; their
\* number is bounded by the number of records drained, not by one.
C7_InFlightDisjoint ==
    /\ \A b \in InFlight :
          /\ batches[b].payload # <<>>
          /\ Range(batches[b].payload) \cap Range(buffer) = {}
    /\ \A b1, b2 \in InFlight :
          b1 # b2 => Range(batches[b1].payload) \cap Range(batches[b2].payload) = {}
    /\ Cardinality(InFlight) <= Len(calls) - Len(buffer)

\* A second batch is sending while the first one sleeps in backoff.
C7_Witness ==
    \E b1, b2 \in InFlight :
        /\ b1 < b2
        /\ batches[b1].phase = "backoff"
        /\ batches[b2].phase = "fetch"

\* -------------------------------------------------------------------- C8
\* C8 as stated: every captureLog promise is settled as soon as the call
\* has appended and decided, on the threshold path too.
C8_RecordNeverWaits == \A r \in DOMAIN calls : calls[r].status = "resolved"

\* C8 amended: a captureLog call below the threshold settles at once; a
\* call that reaches the threshold awaits the flush it started, so its
\* promise is pending exactly while that batch has no terminal outcome.
C8_PendingWhileOwnFlushRuns ==
    \A r \in DOMAIN calls :
        /\ (calls[r].batch # 0) =
              (\E b \in DOMAIN batches :
                  /\ batches[b].trigger = "threshold"
                  /\ batches[b].payload[Len(batches[b].payload)] = r)
        /\ calls[r].batch # 0 =>
              /\ batches[calls[r].batch].awaiter = <<"call", r>>
              /\ (calls[r].status = "pending")
                    = (batches[calls[r].batch].phase # "done")
        /\ calls[r].batch = 0 => calls[r].status = "resolved"

\* A threshold call still pending while its batch sleeps in backoff, next
\* to a below-threshold call that has settled.
C8_Witness ==
    /\ \E r \in DOMAIN calls :
          /\ calls[r].status = "pending"
          /\ batches[calls[r].batch].phase = "backoff"
    /\ \E r \in DOMAIN calls : calls[r].batch = 0

\* -------------------------------------------------------------------- C9
\* C9: once the process has exited, every fatal record of an uncaught
\* fault is in a batch that has reached its terminal outcome.
C9_ExitAfterFatalOutcome ==
    exited =>
        \A r \in DOMAIN calls :
            calls[r].origin = "uncaughtException" =>
                \E b \in DOMAIN batches :
                    /\ r \in Range(batches[b].payload)
                    /\ batches[b].phase = "done"

\* ------------------------------------------------------------------- C10
\* C10: the step that handles an unobserved rejection appends exactly one
\* record, of level fatal, starts no handler and does not exit; and the
\* process only ever exits from the handler of an uncaught exception.
C10_RejectionNeverExits ==
    [][ /\ (Len(calls') > Len(calls)
              /\ calls'[Len(calls')].origin = "unhandledRejection")
            => /\ Len(calls') = Len(calls) + 1
               /\ calls'[Len(calls')].level = "fatal"
               /\ calls'[Len(calls')].handler = 0
               /\ \/ buffer' = Append(buffer, Len(calls'))
                  \/ /\ buffer' = <<>>
                     /\ Len(batches') = Len(batches) + 1
                     /\ batches'[Len(batches')].payload = Append(buffer, Len(calls'))
               /\ handlers' = handlers
               /\ exited' = exited
        /\ (exited' /\ ~exited)
            => \E h \in DOMAIN handlers :
                  /\ handlers[h].pc = "awaitFlush"
                  /\ handlers'[h].pc = "exit"
                  /\ calls[handlers[h].call].origin = "uncaughtException" ]_vars

\* A rejection's record went out at the threshold, its batch was given up,
\* and the process is still running.
C10_Witness ==
    /\ ~exited
    /\ \E r \in DOMAIN calls :
          /\ calls[r].origin = "unhandledRejection"
          /\ calls[r].level = "fatal"
          /\ calls[r].batch # 0
          /\ batches[calls[r].batch].outcome = "Abandoned"

\* ------------------------------------------------------------------- C11
\* C11: the batch size, flush interval and retry count in force are the
\* values given to the constructor, the defaults 50, 2000 and 3 standing in
\* only for a value that was left out; a client given maxRetries = 0 makes
\* one attempt per batch and never sleeps in backoff.
C11_SuppliedValuesInForce ==
    constructed =>
        /\ config.batchSize =
              IF options.batchSize = <<>> THEN 50 ELSE options.batchSize[1]
        /\ config.flushInterval =
              IF options.flushInterval = <<>> THEN 2000 ELSE options.flushInterval[1]
        /\ config.maxRetries =
              IF options.maxRetries = <<>> THEN 3 ELSE options.maxRetries[1]
        /\ options.maxRetries = <<0>> =>
              \A b \in DOMAIN batches :
                  /\ batches[b].attempt = 0
                  /\ batches[b].waits = <<>>

\* ------------------------------------------------------------------- C12
\* C12: every batch holds at least one and at most batchSize records, and
\* the buffer is shorter than batchSize after every step.
C12_BatchWithinBatchSize ==
    constructed =>
        /\ \A b \in DOMAIN batches :
              /\ Len(batches[b].payload) >= 1
              /\ Len(batches[b].payload) <= config.batchSize
        /\ Len(buffer) < config.batchSize

\* A batch of exactly batchSize = 2 records.
C12_Witness ==
    \E b \in DOMAIN batches :
        /\ config.batchSize = 2
        /\ Len(batches[b].payload) = 2

\* ------------------------------------------------------------------- C14
\* The payloads of the first k batches, one after the other.
RECURSIVE Shipped(_)
Shipped(k) == IF k = 0 THEN <<>> ELSE Shipped(k - 1) \o batches[k].payload

\* C14: the payloads of all batches in creation order, followed by the
\* buffer, are the accepted records 1..n in call order.
C14_NoLossNoDuplicateNoReorder ==
    Shipped(Len(batches)) \o buffer = Ids(1, Len(calls))

\* Two batches from different triggers, the first still in flight, with
\* both records accounted for.
C14_Witness ==
    /\ Len(batches) = 2
    /\ Len(calls) = 2
    /\ batches[1].trigger # batches[2].trigger
    /\ batches[1].phase # "done"

\* ------------------------------------------------------------------- C15
\* C15: at most one flush timer is armed, and an armed timer is the one
\* this.timer refers to.
C15_AtMostOneTimer ==
    /\ Cardinality(timers) <= 1
    /\ \A t \in timers : t.id = timer

\* A second timer is armed after the first one was cancelled or fired.
C15_Witness ==
    /\ ntimer = 2
    /\ timers # {}

\* ------------------------------------------------------------------- C17
\* C17: after every step, a batch given up has exactly one diagnostic, none
\* of its records is in the buffer or in another batch, a batch delivered
\* with a 2xx has no diagnostic, a batch in flight has none yet; and a
\* finished batch never changes again (no further attempt).
C17_AbandonedOneDiagnostic ==
    [][ \A b \in DOMAIN batches' :
          LET B == batches'[b] IN
          /\ B.outcome = "Abandoned" =>
                /\ B.diag = 1
                /\ B.phase = "done"
                /\ Range(B.payload) \cap Range(buffer') = {}
                /\ \A c \in DOMAIN batches' :
                      c # b => Range(B.payload) \cap Range(batches'[c].payload) = {}
          /\ (B.outcome = "Delivered" /\ B.log[Len(B.log)].kind = "2xx")
                => B.diag = 0
          /\ B.phase # "done" => B.diag = 0
          /\ (b \in DOMAIN batches /\ batches[b].phase = "done")
                => B = batches[b] ]_vars

\* One batch given up and one delivered with a 2xx.
C17_Witness ==
    /\ \E b \in DOMAIN batches :
          batches[b].outcome = "Abandoned" /\ batches[b].diag = 1
    /\ \E b \in DOMAIN batches :
          /\ batches[b].outcome = "Delivered"
          /\ batches[b].log[Len(batches[b].log)].kind = "2xx"

\* ------------------------------------------------------------------- C18
\* C18: every batch whose terminal response is a 4xx has one diagnostic.
C18_RejectedBatchWarns ==
    \A b \in DOMAIN batches :
        (/\ batches[b].phase = "done"
         /\ batches[b].log[Len(batches[b].log)].kind = "4xx")
            => batches[b].diag = 1

\* ------------------------------------------------------------------- C19
\* C19: after every step this.timer is set exactly when the buffer is not
\* empty, and the timer it names is armed; so no timer fires on an empty
\* buffer and no fired timer stays behind in this.timer.
C19_TimerIffBufferNonEmpty ==
    /\ (timer # 0) = (buffer # <<>>)
    /\ (timers # {}) = (buffer # <<>>)
    /\ timer # 0 => \E t \in timers : t.id = timer

\* After the first timer fired, a later record armed a new one.
C19_Witness ==
    /\ ntimer = 2
    /\ timer = 2
    /\ buffer = <<2>>
    /\ Len(batches) = 1
    /\ batches[1].trigger = "timer"

\* ------------------------------------------------------------------- C20
\* C20: a response outside 2xx, 4xx and 5xx is the last entry of its
\* batch's log: the batch is given up right after it, with no backoff sleep
\* and no further attempt, and its diagnostic is written.
C20_OtherStatusAbandons ==
    \A b \in DOMAIN batches :
        LET B == batches[b] IN
        \A i \in DOMAIN B.log :
            B.log[i].kind = "other" =>
                /\ i = Len(B.log)
                /\ B.phase = "done"
                /\ B.outcome = "Abandoned"
                /\ B.attempt = i - 1
                /\ Len(B.waits) = i - 1
                /\ B.diag = 1

\* A 3xx on attempt 0 of a client that would retry three times.
C20_Witness ==
    \E b \in DOMAIN batches :
        /\ config.maxRetries = 3
        /\ Len(batches[b].log) = 1
        /\ batches[b].log[1].kind = "other"
        /\ batches[b].outcome = "Abandoned"

\* ------------------------------------------------------------------- C16
\* Record r is in a batch that has reached its terminal outcome.
Settled(r) ==
    \E b \in DOMAIN batches :
        /\ r \in Range(batches[b].payload)
        /\ batches[b].phase = "done"

\* C16 as stated: every accepted record is eventually in a batch that has
\* reached Delivered or Abandoned.
C16_EveryRecordSettles ==
    \A r \in 1..MaxRecords : (Len(calls) >= r) ~> Settled(r)

\* C16 amended: every accepted record is eventually in a batch that has
\* reached its terminal outcome, unless the uncaughtException handler has
\* ended the process before that.
C16_EveryRecordSettlesOrExit ==
    \A r \in 1..MaxRecords : (Len(calls) >= r) ~> (Settled(r) \/ exited)

\* Two records, the first flushed by the timer, both settled, no exit.
C16_Witness ==
    /\ ~exited
    /\ Len(calls) = 2
    /\ Settled(1)
    /\ Settled(2)
    /\ batches[1].trigger = "timer"

\* The transport's closure seen as the state captureLog and flush work on.
PinoAsClient(p) ==
    [buffer |-> p.buffer, timer |-> p.timer, timers |-> p.timers,
     ntimer |-> p.ntimer, batches |-> p.batches, bufAge |-> 0, started |-> 0]

Payloads(bs) == [b \in DOMAIN bs |-> bs[b].payload]

\* C13 (as stated): the Pino transport makes the send attempts of the core
\* engine: wherever the core's send() would retry a 5xx or a network failure,
\* a finished Pino batch has made a further attempt.
C13_PinoSendsLikeCore ==
    \A b \in DOMAIN pino.batches :
        \A i \in DOMAIN pino.batches[b].log :
            (/\ pino.batches[b].phase = "done"
             /\ SendDecision(i - 1, pino.batches[b].log[i], DefaultMaxRetries) = "retry")
            => Len(pino.batches[b].log) > i

\* C13 (amended): the Pino transport keeps its own buffer and timer.  Each
\* record it consumes is batched by the rule of the core's captureLog (same
\* buffer, same timer, same payloads), but every batch gets exactly one send
\* attempt, whatever the response, and at most one diagnostic line.
C13_PinoBatchesLikeCoreSendsOnce ==
    [][ /\ (pino'.consumed # pino.consumed) =>
            LET core == CaptureLog(PinoAsClient(pino), pino'.consumed,
                                   pino.batchSize, pino.flushInterval)
            IN  /\ pino'.buffer = core.buffer
                /\ pino'.timer  = core.timer
                /\ pino'.timers = core.timers
                /\ Payloads(pino'.batches) = Payloads(core.batches)
        /\ \A b \in DOMAIN pino'.batches :
            LET bt == pino'.batches[b]
            IN  /\ Len(bt.log) = (IF bt.phase = "done" THEN 1 ELSE 0)
                /\ bt.warn + bt.error <= 1
                /\ (bt.phase = "done" /\ ~Ok(bt.log[1])) => bt.warn + bt.error = 1
      ]_vars

\* A full batch of two records got a 5xx or a network failure and the
\* transport stopped after that one attempt.
C13_Witness ==
    \E b \in DOMAIN pino.batches :
        /\ pino.batches[b].phase = "done"
        /\ Len(pino.batches[b].payload) = 2
        /\ SendDecision(0, pino.batches[b].log[1], DefaultMaxRetries) = "retry"

====
